---- MODULE Spec2Model ----
(***************************************************************************)
(* Match state-change detection and notification fan-out of cricapp:       *)
(* the poll jobs of src/worker/jobs/match-poller.ts (pollLiveMatches,      *)
(* pollUpcomingMatches, processMatch, checkForStateChanges), the fan-out   *)
(* createMatchNotification, the preference router and the worker pool.     *)
(*                                                                         *)
(* Strings built by template literals are modelled as tuples of their      *)
(* fragments; database ids are strings distinct from the externalIds.      *)
(***************************************************************************)
EXTENDS Integers, Sequences, FiniteSets, Bags, TLC

\* null / undefined
Null == "null"

(***************************************************************************)
(* Bounds                                                                  *)
(***************************************************************************)
\* poll cycles start only while fewer events than this were emitted
MaxEvents == 2
\* jobs started in the worker-pool specification
MaxJobs == 3
\* calls of updatePreference in the preference specification
MaxPrefUpdates == 2

(***************************************************************************)
(* Value sets                                                              *)
(***************************************************************************)
Users == {"u1", "u2"}
\* the event types checkForStateChanges can emit
EventTypes == {"MATCH_START", "TOSS_RESULT", "MATCH_RESULT", "INNINGS_BREAK"}

\* the match fixtures of the model: externalId -> team externalIds
MatchIds == {"m1", "m2"}
HomeOf(m) == IF m = "m1" THEN "team_IND" ELSE "team_AUS"
AwayOf(m) == IF m = "m1" THEN "team_AUS" ELSE "team_IND"
TeamExternalIds == {"team_IND", "team_AUS"}

(***************************************************************************)
(* Pure helpers                                                            *)
(***************************************************************************)
\* the own keys of the statusMap and formatMap object literals
statusMap ==
  [scheduled |-> "SCHEDULED", toss_done |-> "TOSS_DONE", live |-> "LIVE",
   innings_break |-> "INNINGS_BREAK", stumps |-> "STUMPS", delayed |-> "DELAYED",
   abandoned |-> "ABANDONED", completed |-> "COMPLETED", no_result |-> "NO_RESULT"]
formatMap ==
  [test |-> "TEST", odi |-> "ODI", t20i |-> "T20I", t20 |-> "T20",
   list_a |-> "LIST_A", first_class |-> "FIRST_CLASS"]

\* map[key] of an object literal: own property, inherited property, undefined.
\* Every object literal inherits the listed property names from
\* Object.prototype; the value found under them is a function or an object,
\* which is truthy
Lookup(map, key) ==
  IF key \in DOMAIN map THEN map[key]
  ELSE IF key \in {"constructor", "toString", "valueOf", "hasOwnProperty",
                   "isPrototypeOf", "propertyIsEnumerable", "toLocaleString",
                   "__proto__"}
       THEN "Object.prototype member"
  ELSE Null

\* match-poller.ts mapStatus: `statusMap[status] || 'SCHEDULED'`
mapStatus(status) ==
  IF Lookup(statusMap, status) # Null THEN Lookup(statusMap, status) ELSE "SCHEDULED"

\* match-poller.ts mapFormat: `formatMap[format] || 'T20'`
mapFormat(format) ==
  IF Lookup(formatMap, format) # Null THEN Lookup(formatMap, format) ELSE "T20"



\* ids the database assigns: one row per externalId (unique key)
TeamDbId(externalId) ==
  CASE externalId = "team_IND" -> "team#IND"
    [] externalId = "team_AUS" -> "team#AUS"
    [] externalId = "team_ENG" -> "team#ENG"
    [] externalId = "team_NZ"  -> "team#NZ"
    [] OTHER                   -> "team#other"
CompetitionDbId(externalId) ==
  CASE externalId = "default" -> "competition#default"
    [] OTHER                  -> "competition#other"
\* the row prisma.team.upsert returns (ensureTeam), with the name the
\* provider reports for the team
TeamRow(externalId) ==
  [id |-> TeamDbId(externalId),
   name |-> CASE externalId = "team_IND" -> "India"
              [] externalId = "team_AUS" -> "Australia"
              [] OTHER                   -> "Unknown"]

\* tossWinnerId / winnerId of the upsert: truthy ref ? (ref === home.id ? home : away) : null
ResolveTeamRef(ref, apiMatch) ==
  IF ref # Null
  THEN (IF ref = apiMatch.homeTeam THEN TeamDbId(apiMatch.homeTeam)
                                   ELSE TeamDbId(apiMatch.awayTeam))
  ELSE Null

(***************************************************************************)
(* Snapshots (ApiMatch values handed to processMatch)                      *)
(***************************************************************************)
ApiMatch(m, st, toss, win, res, comp, ok) ==
  [id |-> m, status |-> st, homeTeam |-> HomeOf(m), awayTeam |-> AwayOf(m),
   competition |-> comp,
   tossWinner |-> toss, tossDecision |-> IF toss = Null THEN Null ELSE "bat",
   winner |-> win, result |-> res, startTimeValid |-> ok]

ResultTexts == {Null, "Australia won by 5 wickets"}

\* every well-formed snapshot of match m; the status is a provider status
\* word, of which "postponed" is not in the lookup table
SnapshotsOf(m) ==
  { ApiMatch(m, st, toss, win, res, Null, TRUE) :
      st \in {"scheduled", "toss_done", "live", "innings_break", "completed",
              "postponed"},
      toss \in {Null, HomeOf(m)},
      win \in {Null, AwayOf(m)}, res \in ResultTexts }

\* a reduced snapshot set: status changes and the toss only
SmallSnapshotsOf(m) ==
  { ApiMatch(m, st, toss, Null, Null, Null, TRUE) :
      st \in {"scheduled", "live"}, toss \in {Null, HomeOf(m)} }

\* the reduced set plus a snapshot whose startTime does not parse
FaultySnapshotsOf(m) ==
  SmallSnapshotsOf(m) \cup { ApiMatch(m, "live", Null, Null, Null, Null, FALSE) }

\* the snapshots of the second match of a batch
SecondSnapshotsOf(m) ==
  { ApiMatch(m, st, Null, Null, Null, Null, TRUE) : st \in {"scheduled", "live"} }

(***************************************************************************)
(* checkForStateChanges: the events of one diff, in call order             *)
(***************************************************************************)
NotificationData(newMatch, type, title, body, homeTeam, awayTeam) ==
  [matchId |-> newMatch.id, type |-> type, title |-> title, body |-> body,
   teamIds |-> <<homeTeam.id, awayTeam.id>>]

\* variant: the diff looks at the new status only
MatchStartEventsOnNewStatus(oldMatch, newMatch, homeTeam, awayTeam) ==
  IF newMatch.status = "LIVE"
  THEN << NotificationData(newMatch, "MATCH_START",
            <<homeTeam.name, "vs", awayTeam.name, "- Match Started!">>,
            <<"The match has begun. Follow live updates!">>, homeTeam, awayTeam) >>
  ELSE << >>

MatchStartEvents(oldMatch, newMatch, homeTeam, awayTeam) ==
  IF oldMatch.status = "SCHEDULED" /\ newMatch.status = "LIVE"
  THEN << NotificationData(newMatch, "MATCH_START",
            <<homeTeam.name, "vs", awayTeam.name, "- Match Started!">>,
            <<"The match has begun. Follow live updates!">>, homeTeam, awayTeam) >>
  ELSE << >>

TossEvents(oldMatch, newMatch, homeTeam, awayTeam, apiMatch) ==
  IF oldMatch.tossWinnerId = Null /\ newMatch.tossWinnerId # Null
  THEN LET tossWinner == IF newMatch.tossWinnerId = homeTeam.id
                         THEN homeTeam.name ELSE awayTeam.name
       IN << NotificationData(newMatch, "TOSS_RESULT",
               <<"Toss Result:", tossWinner, "won">>,
               <<tossWinner, "won the toss and chose to", apiMatch.tossDecision>>,
               homeTeam, awayTeam) >>
  ELSE << >>

\* variant: the winnerId test is missing
MatchResultEventsAnyCompletion(oldMatch, newMatch, homeTeam, awayTeam, apiMatch) ==
  IF oldMatch.status # "COMPLETED" /\ newMatch.status = "COMPLETED"
  THEN LET winner == IF newMatch.winnerId = homeTeam.id
                     THEN homeTeam.name ELSE awayTeam.name
       IN << NotificationData(newMatch, "MATCH_RESULT",
               <<"Match Result:", winner, "won!">>,
               IF apiMatch.result # Null THEN <<apiMatch.result>>
                                         ELSE <<winner, "has won the match">>,
               homeTeam, awayTeam) >>
  ELSE << >>

MatchResultEvents(oldMatch, newMatch, homeTeam, awayTeam, apiMatch) ==
  IF oldMatch.status # "COMPLETED" /\ newMatch.status = "COMPLETED"
     /\ newMatch.winnerId # Null
  THEN LET winner == IF newMatch.winnerId = homeTeam.id
                     THEN homeTeam.name ELSE awayTeam.name
       IN << NotificationData(newMatch, "MATCH_RESULT",
               <<"Match Result:", winner, "won!">>,
               IF apiMatch.result # Null THEN <<apiMatch.result>>
                                         ELSE <<winner, "has won the match">>,
               homeTeam, awayTeam) >>
  ELSE << >>

\* variant: the diff looks at the new status only
InningsBreakEventsOnNewStatus(oldMatch, newMatch, homeTeam, awayTeam) ==
  IF newMatch.status = "INNINGS_BREAK"
  THEN << NotificationData(newMatch, "INNINGS_BREAK", <<"Innings Break">>,
            <<"First innings completed. Second innings to follow.">>,
            homeTeam, awayTeam) >>
  ELSE << >>

InningsBreakEvents(oldMatch, newMatch, homeTeam, awayTeam) ==
  IF oldMatch.status # "INNINGS_BREAK" /\ newMatch.status = "INNINGS_BREAK"
  THEN << NotificationData(newMatch, "INNINGS_BREAK", <<"Innings Break">>,
            <<"First innings completed. Second innings to follow.">>,
            homeTeam, awayTeam) >>
  ELSE << >>

checkForStateChanges(oldMatch, newMatch, homeTeam, awayTeam, apiMatch) ==
  MatchStartEvents(oldMatch, newMatch, homeTeam, awayTeam)
  \o TossEvents(oldMatch, newMatch, homeTeam, awayTeam, apiMatch)
  \o MatchResultEvents(oldMatch, newMatch, homeTeam, awayTeam, apiMatch)
  \o InningsBreakEvents(oldMatch, newMatch, homeTeam, awayTeam)

(***************************************************************************)
(* createMatchNotification: the fan-out of one event                       *)
(***************************************************************************)
\* favoriteTeam.findMany({ where: { teamId: { in: data.teamIds } } })
FavoriteRows(favs, data) ==
  { f \in favs : \E i \in 1..Len(data.teamIds) : f.teamId = data.teamIds[i] }

\* user.notificationPrefs.some((p) => p.channel === channel && p.enabled) over
\* the included prefs: where { type: data.type, enabled: true }
WantsChannel(prfs, userId, data, channel) ==
  \E p \in { q \in prfs : q.userId = userId /\ q.type = data.type /\ q.enabled } :
     p.channel = channel /\ p.enabled

NotificationRow(userId, data, channel) ==
  [userId |-> userId, type |-> data.type, channel |-> channel,
   title |-> data.title, body |-> data.body,
   data |-> [matchId |-> data.matchId,
             email |-> CASE channel # "EMAIL" -> Null
                         [] userId = "u1"     -> "u1@example.com"
                         [] userId = "u2"     -> "u2@example.com"
                         [] OTHER             -> "other@example.com"],
   sentAt |-> Null]

\* variant: one entry per favourite row instead of one per user
MapEntriesPerFavorite(favs, data) ==
  { [userId |-> f.userId, teamId |-> f.teamId] : f \in FavoriteRows(favs, data) }

\* the entries of the uniqueUsers Map: one per userId
MapEntries(favs, data) ==
  { [userId |-> u] : u \in { f.userId : f \in FavoriteRows(favs, data) } }

\* the `notifications` array after the loop over the Map, as a bag of rows
RECURSIVE PushAll(_, _, _)
PushAll(entries, prfs, data) ==
  IF entries = {} THEN EmptyBag
  ELSE LET e == CHOOSE x \in entries : TRUE
           \* the rows one iteration of the loop pushes
           pushed == { NotificationRow(e.userId, data, c) :
                         c \in { x \in {"IN_APP", "EMAIL"} :
                                   WantsChannel(prfs, e.userId, data, x) } }
       IN SetToBag(pushed) (+) PushAll(entries \ {e}, prfs, data)

NotificationsToCreate(favs, prfs, data) == PushAll(MapEntries(favs, data), prfs, data)



\* notification.createMany: every row of the array is inserted
createMatchNotification(notifs, favs, prfs, data) ==
  notifs (+) NotificationsToCreate(favs, prfs, data)

(***************************************************************************)
(* State                                                                   *)
(***************************************************************************)
VARIABLES
  teams,          \* Team table: the externalIds that have a row
  competitions,   \* Competition table: the externalIds that have a row
  matches,        \* Match table: externalId -> row
  favorites,      \* FavoriteTeam table: set of [userId, teamId]
  prefs,          \* NotificationPreference table: set of rows
  notifications,  \* Notification table: bag of rows
  jobs,           \* worker pool: the poll job each slot is running
  applied,        \* history: the snapshot last upserted per match
  detected,       \* history: transitions persisted, per match and event type
  emitted,        \* history: createMatchNotification calls made
  fanned,         \* history: createMatchNotification calls completed
  lastPoll,       \* history: what the last poll cycle did
  fanoutLog,      \* history: completed createMatchNotification calls
  lastFanout,     \* history: the last completed createMatchNotification call
  counters,       \* history: operations performed (bounded specifications)
  delivery,       \* the email sender's configuration and what the last drain did
  scheduler,      \* the queue's repeatable registrations and the start-up's position
  conversion,     \* the last status/format conversion: its inputs and results
  refs,           \* Team and Competition rows in full, the ids resolutions returned,
                  \* and the reference fields of the Match rows
  subscriptions,  \* Subscription table: userId -> plan, status, Stripe subscription id
  favoriteCalls,  \* addFavorite requests in flight, by their position between awaits
  cache,          \* the cache: Redis' entry, the in-memory entry, the clock, and the last call
  feed            \* the provider's current record of each match (CricDataMatch)

vars == <<teams, competitions, matches, favorites, prefs, notifications, jobs,
          applied, detected, emitted, fanned, lastPoll, fanoutLog, lastFanout,
          counters, delivery, scheduler, conversion, refs, subscriptions, favoriteCalls, cache, feed>>

\* the tables and histories a poll job reads and writes, as one value
Db == [teams |-> teams, competitions |-> competitions, matches |-> matches,
       favorites |-> favorites, prefs |-> prefs, notifications |-> notifications,
       applied |-> applied, detected |-> detected, emitted |-> emitted,
       fanned |-> fanned, fanoutLog |-> fanoutLog, lastFanout |-> lastFanout]

Store(db) ==
  /\ teams' = db.teams
  /\ competitions' = db.competitions
  /\ matches' = db.matches
  /\ favorites' = db.favorites
  /\ prefs' = db.prefs
  /\ notifications' = db.notifications
  /\ applied' = db.applied
  /\ detected' = db.detected
  /\ emitted' = db.emitted
  /\ fanned' = db.fanned
  /\ fanoutLog' = db.fanoutLog
  /\ lastFanout' = db.lastFanout

ZeroCounts == [m \in MatchIds |-> [t \in EventTypes |-> 0]]

\* c with one more occurrence of each event type in the sequence events
RECURSIVE Bump(_, _, _)
Bump(c, m, events) ==
  IF events = << >> THEN c
  ELSE Bump([c EXCEPT ![m][Head(events).type] = @ + 1], m, Tail(events))

(***************************************************************************)
(* processMatch, in the three parts separated by its awaits                *)
(***************************************************************************)
\* ensureTeam x2, ensureCompetition or the 'default' upsert
EnsureReferences(db, apiMatch) ==
  [db EXCEPT
     !.teams = @ \cup {apiMatch.homeTeam, apiMatch.awayTeam},
     !.competitions = @ \cup {IF apiMatch.competition # Null
                              THEN apiMatch.competition ELSE "default"}]



\* prisma.match.findUnique({ where: { externalId } })
NoMatch == [id |-> Null]
FindMatch(db, externalId) ==
  IF externalId \in DOMAIN db.matches THEN db.matches[externalId] ELSE NoMatch

\* the row prisma.match.upsert writes: `create` or `update` data
UpsertRow(db, apiMatch) ==
  IF apiMatch.id \in DOMAIN db.matches
  THEN [db.matches[apiMatch.id] EXCEPT
          !.status = mapStatus(apiMatch.status),
          !.tossWinnerId = ResolveTeamRef(apiMatch.tossWinner, apiMatch),
          !.tossDecision = apiMatch.tossDecision,
          !.winnerId = ResolveTeamRef(apiMatch.winner, apiMatch),
          !.result = apiMatch.result]
  ELSE [id |-> CASE apiMatch.id = "m1" -> "match#m1"
                 [] apiMatch.id = "m2" -> "match#m2"
                 [] OTHER              -> "match#other",
        externalId |-> apiMatch.id,
        competitionId |-> IF apiMatch.competition # Null
                          THEN CompetitionDbId(apiMatch.competition)
                          ELSE CompetitionDbId("default"),
        homeTeamId |-> TeamDbId(apiMatch.homeTeam),
        awayTeamId |-> TeamDbId(apiMatch.awayTeam),
        status |-> mapStatus(apiMatch.status),
        tossWinnerId |-> ResolveTeamRef(apiMatch.tossWinner, apiMatch),
        tossDecision |-> apiMatch.tossDecision,
        winnerId |-> ResolveTeamRef(apiMatch.winner, apiMatch),
        result |-> apiMatch.result]

\* match.upsert; detected counts the transitions this upsert persists, judged
\* against the row it overwrites
UpsertMatch(db, apiMatch) ==
  LET row == UpsertRow(db, apiMatch)
      PersistedTransitions ==
        IF apiMatch.id \in DOMAIN db.matches
        THEN checkForStateChanges(db.matches[apiMatch.id], row,
                                  TeamRow(apiMatch.homeTeam), TeamRow(apiMatch.awayTeam),
                                  apiMatch)
        ELSE << >>
  IN [db EXCEPT
        !.matches = [x \in (DOMAIN db.matches) \cup {apiMatch.id} |->
                       IF x = apiMatch.id THEN row ELSE db.matches[x]],
        !.applied = [@ EXCEPT ![apiMatch.id] = apiMatch],
        !.detected = Bump(@, apiMatch.id, PersistedTransitions)]

\* variant: a first observation is diffed against a blank scheduled match
EventsOfAgainstBlank(existingMatch, newMatch, apiMatch) ==
  checkForStateChanges(
    IF existingMatch.id # Null THEN existingMatch
    ELSE [id |-> Null, status |-> "SCHEDULED", tossWinnerId |-> Null, winnerId |-> Null],
    newMatch, TeamRow(apiMatch.homeTeam), TeamRow(apiMatch.awayTeam), apiMatch)

\* `if (existingMatch) await checkForStateChanges(...)`
EventsOf(existingMatch, newMatch, apiMatch) ==
  IF existingMatch.id # Null
  THEN checkForStateChanges(existingMatch, newMatch, TeamRow(apiMatch.homeTeam),
                            TeamRow(apiMatch.awayTeam), apiMatch)
  ELSE << >>

\* a completed fan-out: its event and the audience tables it read
FanoutEntry(db, data) == [event |-> data, favorites |-> db.favorites, prefs |-> db.prefs]

\* the awaited createMatchNotification calls, in order; call number failAt throws
RECURSIVE FanOutAll(_, _, _, _, _)
FanOutAll(db, m, events, k, failAt) ==
  IF k > Len(events) THEN db
  ELSE LET called == [db EXCEPT !.emitted[m][events[k].type] = @ + 1]
       IN IF k = failAt THEN called
          ELSE FanOutAll(
                 [called EXCEPT
                    !.notifications = createMatchNotification(
                                        @, db.favorites, db.prefs, events[k]),
                    !.fanned[m][events[k].type] = @ + 1,
                    !.fanoutLog = @ \cup {FanoutEntry(db, events[k])},
                    !.lastFanout =
                      [event |-> events[k],
                       again |-> FanoutEntry(db, events[k]) \in db.fanoutLog,
                       prefs |-> db.prefs,
                       rows |-> BagToSet(NotificationsToCreate(
                                  db.favorites, db.prefs, events[k])),
                       pushed |-> BagCardinality(NotificationsToCreate(
                                    db.favorites, db.prefs, events[k]))]],
                 m, events, k + 1, failAt)

\* processMatch as one job runs it; the upsert rejects an unparsable startTime
\* and a status that is not a value of the enum
processMatch(db, apiMatch, failAt) ==
  LET db1 == EnsureReferences(db, apiMatch)
      existingMatch == FindMatch(db1, apiMatch.id)
      db2 == UpsertMatch(db1, apiMatch)
      match == db2.matches[apiMatch.id]
      events == EventsOf(existingMatch, match, apiMatch)
      db3 == FanOutAll(db2, apiMatch.id, events, 1, failAt)
      threw == failAt \in 1..Len(events)
  IN IF ~apiMatch.startTimeValid
        \/ mapStatus(apiMatch.status) \notin { statusMap[k] : k \in DOMAIN statusMap }
     THEN [db |-> db1,
           run |-> [matchId |-> apiMatch.id, ok |-> FALSE, upserted |-> FALSE,
                    existed |-> existingMatch.id # Null, repeat |-> FALSE,
                    events |-> << >>, created |-> 0]]
     ELSE [db |-> db3,
           run |-> [matchId |-> apiMatch.id, ok |-> ~threw, upserted |-> TRUE,
                    repeat |-> (db.applied[apiMatch.id] = apiMatch),
                    existed |-> existingMatch.id # Null,
                    events |-> IF threw THEN SubSeq(events, 1, failAt) ELSE events,
                    created |-> BagCardinality(db3.notifications)
                                - BagCardinality(db.notifications)]]

(***************************************************************************)
(* pollLiveMatches / pollUpcomingMatches                                   *)
(***************************************************************************)
\* `for (const match of matches) await processMatch(match)` inside the try
RECURSIVE RunBatch(_, _, _, _)
RunBatch(db, batch, i, fault) ==
  IF i > Len(batch) THEN [db |-> db, runs |-> << >>, ok |-> TRUE]
  ELSE LET r == processMatch(db, batch[i], IF fault.at = i THEN fault.call ELSE 0)
       IN IF ~r.run.ok
          THEN [db |-> r.db, runs |-> <<r.run>>, ok |-> FALSE]
          ELSE LET rest == RunBatch(r.db, batch, i + 1, fault)
               IN [db |-> rest.db, runs |-> <<r.run>> \o rest.runs, ok |-> rest.ok]

NoFault == [at |-> 0, call |-> 0]

\* c[m][t] summed over the event types, per match and in all
SumOf(c, m) ==
  c[m]["MATCH_START"] + c[m]["TOSS_RESULT"] + c[m]["MATCH_RESULT"] + c[m]["INNINGS_BREAK"]
\* the cap of the model: fewer than MaxEvents events were emitted so far
WithinBounds == SumOf(emitted, "m1") + SumOf(emitted, "m2") < MaxEvents

\* the apiSyncLog row a cycle creates (Null: none) and whether the poll
\* function throws: the early return logs nothing, the catch logs the error
\* and returns
PollOutcome(fetchOk, batch, ok) ==
  IF ~fetchOk THEN [log |-> "error", recordsCount |-> Null, threw |-> FALSE]
  ELSE IF batch = << >> THEN [log |-> Null, recordsCount |-> Null, threw |-> FALSE]
  ELSE IF ok THEN [log |-> "success", recordsCount |-> Len(batch), threw |-> FALSE]
  ELSE [log |-> "error", recordsCount |-> Null, threw |-> FALSE]

\* the worker's processor rethrows what the job function throws; the queue
\* marks such a job failed (and retries it while attempts remain)
JobResult(threw) == IF threw THEN "failed" ELSE "completed"

\* one poll cycle: fetch, early return on an empty list, the loop, the sync log
PollCycle(endpoint, fetchOk, batch, fault) ==
  /\ WithinBounds
  /\ LET r == IF fetchOk /\ batch # << >>
              THEN RunBatch(Db, batch, 1, fault)
              ELSE [db |-> Db, runs |-> << >>, ok |-> fetchOk]
         outcome == PollOutcome(fetchOk, batch, r.ok)
     IN /\ Store(r.db)
        /\ lastPoll' = [endpoint |-> endpoint, fetched |-> fetchOk,
                        ids |-> IF fetchOk THEN [i \in 1..Len(batch) |-> batch[i].id]
                                           ELSE << >>,
                        runs |-> r.runs,
                        log |-> outcome.log,
                        recordsCount |-> outcome.recordsCount,
                        job |-> JobResult(outcome.threw)]
  /\ UNCHANGED <<jobs, counters, delivery, scheduler, conversion, refs, subscriptions, favoriteCalls, cache, feed>>

\* the batches of the detector specification: one match, every snapshot
Batches == {<< >>} \cup { <<s>> : s \in SnapshotsOf("m1") }



pollLiveMatches ==
  \E batch \in Batches : PollCycle("live-matches", TRUE, batch, NoFault)

\* the upcoming list holds matches that have not started
pollUpcomingMatches ==
  \E batch \in { b \in Batches :
                   \A i \in 1..Len(b) :
                      b[i].status \in {"scheduled", "toss_done", "postponed"} } :
     PollCycle("upcoming-matches", TRUE, batch, NoFault)

(***************************************************************************)
(* Initial state: after the worker's initial data sync and the sign-up of  *)
(* the users (register.ts creates the default preferences)                 *)
(***************************************************************************)
DefaultPrefs(u) ==
  { [userId |-> u, teamId |-> Null, type |-> t, channel |-> c,
     enabled |-> (c = "IN_APP")] :
      t \in {"MATCH_START", "TOSS_RESULT", "MATCH_RESULT"}, c \in {"IN_APP", "EMAIL"} }

Fav(u, externalId) == [userId |-> u, teamId |-> TeamDbId(externalId)]

\* u1 follows both teams, u2 one of them
InitialFavorites ==
  {Fav("u1", "team_IND"), Fav("u1", "team_AUS"), Fav("u2", "team_AUS")}

NoPoll == [endpoint |-> Null, fetched |-> FALSE, ids |-> << >>, runs |-> << >>,
           log |-> Null, recordsCount |-> Null, job |-> Null]
NoFanout == [event |-> [type |-> Null], again |-> FALSE, prefs |-> {}, rows |-> {},
             pushed |-> 0]
IdleJob == [pc |-> "idle", apiMatch |-> NoMatch, existingMatch |-> NoMatch]

\* the Team and Competition rows after the initial data sync, which found
\* the two teams of the fixtures and no competition; ids are numbers
SyncedRefs ==
  [teams |-> { [id |-> 1, externalId |-> "team_IND", name |-> "India"],
               [id |-> 2, externalId |-> "team_AUS", name |-> "Australia"] },
   competitions |-> {},
   nextId |-> 3,
   issued |-> {},
   matches |-> << >>,
   calls |-> 0]

\* the subscription register.ts creates with the user
FreeSubscription == [plan |-> "FREE", status |-> "ACTIVE", stripeSubscriptionId |-> Null]

\* addFavorite requests the server can be running at once, and one at rest
CallSlots == {1, 2}
IdleCall == [pc |-> "idle", userId |-> Null, teamId |-> Null]

\* an absent cache entry, no set so far, no get just made
NoEntry == [text |-> Null, expiry |-> 0]
NoSet == [value |-> [type |-> Null, text |-> Null], at |-> 0, ttlSeconds |-> 0]
NoGet == [ran |-> FALSE, value |-> [type |-> Null, text |-> Null], from |-> Null,
          expiry |-> 0]

\* the cache of a fresh process at time 0; configured: `redis` is a client
\* (REDIS_URL set), not null
ColdCache(configured) ==
  [configured |-> configured, up |-> configured, redis |-> NoEntry,
   memoryCache |-> NoEntry, now |-> 0, lastSet |-> NoSet, got |-> NoGet]

\* the provider lists both matches as fixtures of the coming week
QuietFeed ==
  [m \in MatchIds |->
     [status |-> <<"N", "o", "t", " ", "s", "t", "a", "r", "t", "e", "d">>,
      matchStarted |-> FALSE, matchEnded |-> FALSE, withinDays |-> TRUE]]

\* no conversion has run
NoConversion ==
  [kind |-> Null, rawStatus |-> << >>, matchStarted |-> FALSE, matchEnded |-> FALSE,
   rawFormat |-> << >>, status |-> Null, format |-> Null,
   dbStatus |-> Null, dbFormat |-> Null]

\* no drain has run; resend is the Resend client or null (RESEND_API_KEY unset)
IdleDelivery(resend) ==
  [resend |-> resend, selected |-> EmptyBag, failed |-> EmptyBag, accepted |-> EmptyBag,
   drains |-> 0]

\* the repeatable jobs setupRecurringJobs adds, in order: name, job type,
\* repeat options
RecurringJobList ==
  << [name |-> "poll-live", type |-> "poll-live-matches", repeat |-> "every 30000"],
     [name |-> "poll-upcoming", type |-> "poll-upcoming-matches", repeat |-> "every 300000"],
     [name |-> "send-notifications", type |-> "process-notifications", repeat |-> "every 10000"],
     [name |-> "sync-data", type |-> "sync-data", repeat |-> "pattern 0 0 * * *"] >>
RecurringJobs == { RecurringJobList[i] : i \in DOMAIN RecurringJobList }

\* main() has run setupRecurringJobs on an empty queue
Started == [repeatables |-> RecurringJobs, pc |-> "running", listed |-> {},
            added |-> Len(RecurringJobList), starts |-> 1]

Init ==
  /\ teams = TeamExternalIds
  /\ competitions = {}
  /\ matches = << >>
  /\ favorites = InitialFavorites
  /\ prefs = UNION { DefaultPrefs(u) : u \in Users }
  /\ notifications = EmptyBag
  /\ jobs = [j \in 1..2 |-> IdleJob]
  /\ applied = [m \in MatchIds |-> NoMatch]
  /\ detected = ZeroCounts
  /\ emitted = ZeroCounts
  /\ fanned = ZeroCounts
  /\ lastPoll = NoPoll
  /\ fanoutLog = {}
  /\ lastFanout = NoFanout
  /\ counters = [jobs |-> 0, prefUpdates |-> 0]
  /\ delivery = IdleDelivery(TRUE)
  /\ scheduler = Started
  /\ conversion = NoConversion
  /\ refs = SyncedRefs
  /\ subscriptions = [u \in Users |-> FreeSubscription]
  /\ favoriteCalls = [c \in CallSlots |-> IdleCall]
  /\ cache = ColdCache(TRUE)
  /\ feed = QuietFeed

Next == pollLiveMatches \/ pollUpcomingMatches

Spec == Init /\ [][Next]_vars

(***************************************************************************)
(* Poll cycles under faults: the snapshot source is unreachable, a         *)
(* snapshot is malformed, or the database rejects a fan-out                *)
(***************************************************************************)
FaultyBatches ==
  {<< >>}
  \cup { <<s>> : s \in FaultySnapshotsOf("m1") }
  \cup { <<s1, s2>> : s1 \in FaultySnapshotsOf("m1"), s2 \in SecondSnapshotsOf("m2") }

\* the cycles of a poll job: the fetch throws, or a batch runs under a fault
\* (fan-out call number `call` of the match at position `at` throws)
FaultyCycle(endpoint, batches) ==
  \/ PollCycle(endpoint, FALSE, << >>, NoFault)
  \/ \E batch \in batches,
        fault \in {NoFault} \cup { [at |-> 1, call |-> k] : k \in 1..2 } :
       PollCycle(endpoint, TRUE, batch, fault)

pollLiveMatchesFaulty == FaultyCycle("live-matches", FaultyBatches)

pollUpcomingMatchesFaulty ==
  FaultyCycle("upcoming-matches",
              { b \in FaultyBatches : \A i \in 1..Len(b) : b[i].status = "scheduled" })

NextFaulty == pollLiveMatchesFaulty \/ pollUpcomingMatchesFaulty

FaultSpec == Init /\ [][NextFaulty]_vars

(***************************************************************************)
(* The worker pool (concurrency > 1): two slots run poll jobs whose awaits *)
(* interleave.  A job polls one match; its steps are the database calls of *)
(* processMatch.                                                           *)
(***************************************************************************)


\* fetch, ensureTeam/ensureCompetition and match.findUnique
JobRead(j) ==
  /\ jobs[j].pc = "idle"
  /\ counters.jobs < MaxJobs
  /\ WithinBounds
  /\ \E apiMatch \in SmallSnapshotsOf("m1") :
       LET db1 == EnsureReferences(Db, apiMatch)
       IN /\ Store(db1)
          /\ jobs' = [jobs EXCEPT ![j] = [pc |-> "upsert", apiMatch |-> apiMatch,
                                          existingMatch |-> FindMatch(db1, apiMatch.id)]]
  /\ counters' = [counters EXCEPT !.jobs = @ + 1]
  /\ UNCHANGED <<lastPoll, delivery, scheduler, conversion, refs, subscriptions, favoriteCalls, cache, feed>>

\* match.upsert
JobUpsert(j) ==
  /\ jobs[j].pc = "upsert"
  /\ Store(UpsertMatch(Db, jobs[j].apiMatch))
  /\ jobs' = [jobs EXCEPT ![j].pc = "notify"]
  /\ UNCHANGED <<lastPoll, counters, delivery, scheduler, conversion, refs, subscriptions, favoriteCalls, cache, feed>>

\* checkForStateChanges against the row read earlier, then the sync log
JobNotify(j) ==
  /\ jobs[j].pc = "notify"
  /\ LET apiMatch == jobs[j].apiMatch
         events == EventsOf(jobs[j].existingMatch, matches[apiMatch.id], apiMatch)
         db3 == FanOutAll(Db, apiMatch.id, events, 1, 0)
     IN /\ Store(db3)
        /\ lastPoll' = [endpoint |-> "live-matches", fetched |-> TRUE,
                        ids |-> <<apiMatch.id>>,
                        runs |-> << [matchId |-> apiMatch.id, ok |-> TRUE,
                                     upserted |-> TRUE,
                                     existed |-> jobs[j].existingMatch.id # Null,
                                     repeat |-> FALSE, events |-> events,
                                     created |-> BagCardinality(db3.notifications)
                                                 - BagCardinality(notifications)] >>,
                        log |-> "success", recordsCount |-> 1,
                        job |-> JobResult(FALSE)]
  /\ jobs' = [jobs EXCEPT ![j] = IdleJob]
  /\ UNCHANGED <<counters, delivery, scheduler, conversion, refs, subscriptions, favoriteCalls, cache, feed>>

NextPool == \E j \in 1..2 : JobRead(j) \/ JobUpsert(j) \/ JobNotify(j)

PoolSpec == Init /\ [][NextPool]_vars

(***************************************************************************)
(* The preference router next to the poller                                *)
(***************************************************************************)
\* notificationPreference.upsert keyed by (userId, teamId, type, channel)
UpsertPreference(prfs, userId, teamId, type, channel, enabled) ==
  { p \in prfs : ~(p.userId = userId /\ p.teamId = teamId
                   /\ p.type = type /\ p.channel = channel) }
  \cup { [userId |-> userId, teamId |-> teamId, type |-> type,
          channel |-> channel, enabled |-> enabled] }

\* updatePreference, over the inputs explored by the model
updatePreference ==
  /\ counters.prefUpdates < MaxPrefUpdates
  /\ \E u \in {"u1"}, teamId \in {Null, TeamDbId("team_IND")},
        type \in {"MATCH_START", "TOSS_RESULT"},
        channel \in {"IN_APP", "EMAIL"}, enabled \in BOOLEAN :
       prefs' = UpsertPreference(prefs, u, teamId, type, channel, enabled)
  /\ counters' = [counters EXCEPT !.prefUpdates = @ + 1]
  /\ UNCHANGED <<teams, competitions, matches, favorites, notifications, jobs,
                 applied, detected, emitted, fanned, lastPoll, fanoutLog, lastFanout,
                 delivery, scheduler, conversion, refs, subscriptions, favoriteCalls, cache, feed>>

pollLiveMatchesSmall ==
  \E s \in SmallSnapshotsOf("m1") : PollCycle("live-matches", TRUE, <<s>>, NoFault)

NextPrefs == updatePreference \/ pollLiveMatchesSmall

PrefSpec == Init /\ [][NextPrefs]_vars

(***************************************************************************)
(* The delivery drain: processNotifications and sendEmailNotification      *)
(***************************************************************************)
\* `take: 50`
take == 50



RECURSIVE SumOver(_, _)
SumOver(c, rows) ==
  IF rows = {} THEN 0
  ELSE LET r == CHOOSE x \in rows : TRUE IN c[r] + SumOver(c, rows \ {r})

\* the bag with the rows of c that have a positive count
Positive(c) == [r \in { x \in DOMAIN c : c[x] > 0 } |-> c[r]]

\* what findMany may return: `take` of the pending rows, or all of them when
\* fewer are pending; the query has no orderBy, so any such choice
Selections(pending) ==
  LET rows == BagToSet(pending)
      n == IF BagCardinality(pending) < take THEN BagCardinality(pending) ELSE take
  IN { Positive(c) : c \in { x \in [rows -> 0..n] :
                               /\ \A r \in rows : x[r] <= pending[r]
                               /\ SumOver(x, rows) = n } }



\* sendEmailNotification: without a client the row is marked sent at once;
\* otherwise it is marked after resend.emails.send resolved, and a rejection
\* is caught and logged
sendEmailNotification(resend, sendOk) ==
  IF ~resend THEN [marked |-> TRUE, accepted |-> FALSE]
  ELSE IF sendOk THEN [marked |-> TRUE, accepted |-> TRUE]
  ELSE [marked |-> FALSE, accepted |-> FALSE]

\* the rows of a selection with a given outcome; sends of equal rows fare alike
RowsWhere(selected, sendOk, field) ==
  [r \in { x \in BagToSet(selected) :
             sendEmailNotification(delivery.resend, x \in sendOk)[field] } |-> selected[r]]

\* markNotificationSent on every row: sentAt = new Date()
RECURSIVE MarkAll(_)
MarkAll(rows) ==
  IF rows = EmptyBag THEN EmptyBag
  ELSE LET r == CHOOSE x \in DOMAIN rows : TRUE
       IN ([r EXCEPT !.sentAt = "now"] :> rows[r])
          (+) MarkAll([x \in (DOMAIN rows) \ {r} |-> rows[x]])

\* one drain: findMany where { channel: 'EMAIL', sentAt: null }, then send one
\* by one; drains tells one run of the repeatable job from the next (the
\* parity of the number of runs)
processNotifications ==
  /\ \E selected \in Selections([r \in { x \in BagToSet(notifications) :
                                          x.channel = "EMAIL" /\ x.sentAt = Null }
                                  |-> notifications[r]]) :
       \E sendOk \in SUBSET BagToSet(selected) :
          LET marked == RowsWhere(selected, sendOk, "marked")
              accepted == RowsWhere(selected, sendOk, "accepted")
          IN /\ notifications' = (notifications (-) marked) (+) MarkAll(marked)
             /\ delivery' = [resend |-> delivery.resend, selected |-> selected,
                             failed |-> selected (-) marked,
                             accepted |-> delivery.accepted (+) accepted,
                             drains |-> (delivery.drains + 1) % 2]
  /\ UNCHANGED <<teams, competitions, matches, favorites, prefs, jobs, applied,
                 detected, emitted, fanned, lastPoll, fanoutLog, lastFanout,
                 counters, scheduler, conversion, refs, subscriptions, favoriteCalls, cache, feed>>

\* bound: EMAIL rows of u2 pending in the initial states
MaxPending == 51

\* the database after u1 and u2 enabled EMAIL for MATCH_START and m1 was
\* polled scheduled and then live
AfterMatchStart ==
  LET EmailPrefs ==
        UpsertPreference(
          UpsertPreference(UNION { DefaultPrefs(u) : u \in Users },
                           "u1", Null, "MATCH_START", "EMAIL", TRUE),
          "u2", Null, "MATCH_START", "EMAIL", TRUE)
      db0 == [teams |-> TeamExternalIds, competitions |-> {}, matches |-> << >>,
              favorites |-> InitialFavorites, prefs |-> EmailPrefs,
              notifications |-> EmptyBag,
              applied |-> [m \in MatchIds |-> NoMatch], detected |-> ZeroCounts,
              emitted |-> ZeroCounts, fanned |-> ZeroCounts, fanoutLog |-> {},
              lastFanout |-> NoFanout]
      db1 == processMatch(db0, ApiMatch("m1", "scheduled", Null, Null, Null, Null, TRUE), 0).db
  IN processMatch(db1, ApiMatch("m1", "live", Null, Null, Null, Null, TRUE), 0).db

\* the EMAIL row the MATCH_START fan-out created for a user
EmailRowOf(u) ==
  CHOOSE r \in BagToSet(AfterMatchStart.notifications) : r.userId = u /\ r.channel = "EMAIL"

\* initial states of the drain: the MATCH_START rows of m1, u2's EMAIL row in
\* 1..MaxPending copies (createMany adds a copy with every fan-out of the
\* event), and the email client configured or not
DeliveryInit ==
  \E copies \in 1..MaxPending, resend \in BOOLEAN :
     /\ teams = AfterMatchStart.teams
     /\ competitions = AfterMatchStart.competitions
     /\ matches = AfterMatchStart.matches
     /\ favorites = AfterMatchStart.favorites
     /\ prefs = AfterMatchStart.prefs
     /\ notifications = AfterMatchStart.notifications
                        (+) Positive((EmailRowOf("u2") :> (copies - 1)))
     /\ jobs = [j \in 1..2 |-> IdleJob]
     /\ applied = AfterMatchStart.applied
     /\ detected = AfterMatchStart.detected
     /\ emitted = AfterMatchStart.emitted
     /\ fanned = AfterMatchStart.fanned
     /\ lastPoll = NoPoll
     /\ fanoutLog = AfterMatchStart.fanoutLog
     /\ lastFanout = AfterMatchStart.lastFanout
     /\ counters = [jobs |-> 0, prefUpdates |-> 0]
     /\ delivery = IdleDelivery(resend)
     /\ scheduler = Started
     /\ conversion = NoConversion
     /\ refs = SyncedRefs
     /\ subscriptions = [u \in Users |-> FreeSubscription]
     /\ favoriteCalls = [c \in CallSlots |-> IdleCall]
     /\ cache = ColdCache(TRUE)
     /\ feed = QuietFeed

NextDelivery == processNotifications

DeliverySpec == DeliveryInit /\ [][NextDelivery]_vars

\* 'process-notifications' is a repeatable job (every 10 s): the drain keeps
\* being invoked
DrainSpec == DeliveryInit /\ [][NextDelivery]_vars /\ WF_vars(processNotifications)

(***************************************************************************)
(* Process start: setupRecurringJobs on a queue that outlives the process  *)
(***************************************************************************)
\* bound: process starts in the start-up specification
MaxStarts == 2



\* variant: the stale registrations are not listed
getRepeatableJobsNone(repeatables) == {}

\* cricketQueue.getRepeatableJobs()
getRepeatableJobs(repeatables) == repeatables





everythingButScheduler ==
  <<teams, competitions, matches, favorites, prefs, notifications, jobs, applied,
    detected, emitted, fanned, lastPoll, fanoutLog, lastFanout, counters, delivery,
    conversion, refs, subscriptions, favoriteCalls, cache, feed>>

\* main() reaches setupRecurringJobs, which lists the registrations
StartProcess ==
  /\ scheduler.pc = "stopped"
  /\ scheduler.starts < MaxStarts
  /\ scheduler' = [scheduler EXCEPT !.pc = "clearing", !.added = 0, !.starts = @ + 1,
                                    !.listed = getRepeatableJobs(scheduler.repeatables)]
  /\ UNCHANGED everythingButScheduler

\* one iteration of the loop over the listed registrations:
\* cricketQueue.removeRepeatableByKey(job.key)
ClearRepeatable ==
  /\ scheduler.pc = "clearing"
  /\ \E job \in scheduler.listed :
       scheduler' = [scheduler EXCEPT
                       !.repeatables = @ \ {job},
                       !.listed = @ \ {job}]
  /\ UNCHANGED everythingButScheduler

\* the next cricketQueue.add; after the fourth the worker is running
AddRecurringJob ==
  /\ \/ scheduler.pc = "clearing" /\ scheduler.listed = {}
     \/ scheduler.pc = "adding"
  /\ scheduler.added < Len(RecurringJobList)
  /\ scheduler' = [scheduler EXCEPT
                     !.repeatables = @ \cup {RecurringJobList[scheduler.added + 1]},
                     !.added = @ + 1,
                     !.pc = IF scheduler.added + 1 = Len(RecurringJobList)
                            THEN "running" ELSE "adding"]
  /\ UNCHANGED everythingButScheduler

\* the process stops (shutdown or kill) at any point; the queue keeps its
\* registrations
StopProcess ==
  /\ scheduler.pc # "stopped"
  /\ scheduler' = [scheduler EXCEPT !.pc = "stopped", !.listed = {}]
  /\ UNCHANGED everythingButScheduler

\* before the first start of this run the queue holds any registrations: its
\* own and those earlier versions or runs of the worker may have left behind
SchedulerInit ==
  \E left \in SUBSET (RecurringJobs \cup
                      { [name |-> "poll-live", type |-> "poll-live-matches",
                         repeat |-> "every 60000"],
                        [name |-> "cleanup", type |-> "cleanup",
                         repeat |-> "pattern 0 3 * * *"] }) :
     /\ teams = TeamExternalIds
     /\ competitions = {}
     /\ matches = << >>
     /\ favorites = InitialFavorites
     /\ prefs = UNION { DefaultPrefs(u) : u \in Users }
     /\ notifications = EmptyBag
     /\ jobs = [j \in 1..2 |-> IdleJob]
     /\ applied = [m \in MatchIds |-> NoMatch]
     /\ detected = ZeroCounts
     /\ emitted = ZeroCounts
     /\ fanned = ZeroCounts
     /\ lastPoll = NoPoll
     /\ fanoutLog = {}
     /\ lastFanout = NoFanout
     /\ counters = [jobs |-> 0, prefUpdates |-> 0]
     /\ delivery = IdleDelivery(TRUE)
     /\ scheduler = [repeatables |-> left, pc |-> "stopped", listed |-> {},
                     added |-> 0, starts |-> 0]
     /\ conversion = NoConversion
     /\ refs = SyncedRefs
     /\ subscriptions = [u \in Users |-> FreeSubscription]
     /\ favoriteCalls = [c \in CallSlots |-> IdleCall]
     /\ cache = ColdCache(TRUE)
     /\ feed = QuietFeed

NextScheduler == StartProcess \/ ClearRepeatable \/ AddRecurringJob \/ StopProcess

SchedulerSpec == SchedulerInit /\ [][NextScheduler]_vars

(***************************************************************************)
(* Status and format conversion: the provider's mapStatus and mapFormat    *)
(* (free text of the data source -> ApiMatch words) and the poller's       *)
(* (ApiMatch words -> database enums).  Free text is a sequence of         *)
(* characters, so that toLowerCase and includes are computed.              *)
(***************************************************************************)
\* String.prototype.toLowerCase
toLowerCase(text) ==
  LET UpperCase == <<"A", "B", "C", "D", "E", "F", "G", "H", "I", "J", "K", "L", "M",
                     "N", "O", "P", "Q", "R", "S", "T", "U", "V", "W", "X", "Y", "Z">>
      LowerCase == <<"a", "b", "c", "d", "e", "f", "g", "h", "i", "j", "k", "l", "m",
                     "n", "o", "p", "q", "r", "s", "t", "u", "v", "w", "x", "y", "z">>
  IN [i \in DOMAIN text |->
        IF \E k \in DOMAIN UpperCase : UpperCase[k] = text[i]
        THEN LowerCase[CHOOSE k \in DOMAIN UpperCase : UpperCase[k] = text[i]]
        ELSE text[i]]

\* String.prototype.includes
includes(text, part) ==
  \E i \in 0..(Len(text) - Len(part)) : SubSeq(text, i + 1, i + Len(part)) = part

\* types.ts mapStatus(status, matchStarted, matchEnded)
providerMapStatus(status, matchStarted, matchEnded) ==
  LET statusLower == toLowerCase(status)
  IN IF matchEnded THEN "completed"
     ELSE IF includes(statusLower, <<"l", "i", "v", "e">>) \/ includes(statusLower, <<"i", "n", " ", "p", "r", "o", "g", "r", "e", "s", "s">>)
          THEN "live"
     ELSE IF includes(statusLower, <<"i", "n", "n", "i", "n", "g", "s", " ", "b", "r", "e", "a", "k">>) THEN "innings_break"
     ELSE IF includes(statusLower, <<"s", "t", "u", "m", "p", "s">>) THEN "stumps"
     ELSE IF includes(statusLower, <<"d", "e", "l", "a", "y", "e", "d">>) \/ includes(statusLower, <<"r", "a", "i", "n">>)
          THEN "delayed"
     ELSE IF includes(statusLower, <<"a", "b", "a", "n", "d", "o", "n", "e", "d">>) THEN "abandoned"
     ELSE IF includes(statusLower, <<"n", "o", " ", "r", "e", "s", "u", "l", "t">>) THEN "no_result"
     ELSE IF includes(statusLower, <<"t", "o", "s", "s">>) THEN "toss_done"
     ELSE IF ~matchStarted THEN "scheduled"
     ELSE "scheduled"

\* types.ts mapFormat(matchType)
providerMapFormat(matchType) ==
  LET typeLower == toLowerCase(matchType)
  IN IF typeLower = <<"t", "e", "s", "t">> THEN "test"
     ELSE IF typeLower = <<"o", "d", "i">> THEN "odi"
     ELSE IF typeLower = <<"t", "2", "0", "i">> THEN "t20i"
     ELSE IF typeLower = <<"t", "2", "0">> THEN "t20"
     ELSE IF includes(typeLower, <<"l", "i", "s", "t", " ", "a">>) THEN "list_a"
     ELSE IF includes(typeLower, <<"f", "i", "r", "s", "t", " ", "c", "l", "a", "s", "s">>) \/ includes(typeLower, <<"f", "c">>)
          THEN "first_class"
     ELSE "t20"



\* words handed to the poller's mapStatus / mapFormat: every key of the
\* tables, unrecognized words, and words Object.prototype has a member for
StatusWords == (DOMAIN statusMap) \cup {"postponed", "unknown", "constructor", "toString"}
FormatWords == (DOMAIN formatMap) \cup {"t10", "the_hundred", "constructor", "valueOf"}

everythingButConversion ==
  <<teams, competitions, matches, favorites, prefs, notifications, jobs, applied,
    detected, emitted, fanned, lastPoll, fanoutLog, lastFanout, counters, delivery,
    scheduler, refs, subscriptions, favoriteCalls, cache, feed>>

\* mapMatch converts a record of the data source, processMatch converts the
\* resulting words; the inputs are status texts and match types of the data
\* source
ConvertProviderRecord ==
  /\ \E status \in
          { <<"L", "i", "v", "e">>,
            <<"I", "n", " ", "P", "r", "o", "g", "r", "e", "s", "s">>,
            <<"I", "n", "n", "i", "n", "g", "s", " ", "B", "r", "e", "a", "k">>,
            <<"S", "t", "u", "m", "p", "s">>,
            <<"D", "e", "l", "a", "y", "e", "d">>,
            <<"R", "a", "i", "n">>,
            <<"A", "b", "a", "n", "d", "o", "n", "e", "d">>,
            <<"N", "o", " ", "r", "e", "s", "u", "l", "t">>,
            <<"T", "o", "s", "s">>,
            <<"T", "o", "s", "s", " ", "d", "e", "l", "a", "y", "e", "d">>,
            <<"N", "o", "t", " ", "s", "t", "a", "r", "t", "e", "d">>,
            <<"I", "n", "d", "i", "a", " ", "w", "o", "n">> },
        matchStarted \in BOOLEAN, matchEnded \in BOOLEAN,
        matchType \in
          { <<"T", "e", "s", "t">>,
            <<"O", "D", "I">>,
            <<"T", "2", "0", "I">>,
            <<"T", "2", "0">>,
            <<"L", "i", "s", "t", " ", "A">>,
            <<"F", "i", "r", "s", "t", " ", "C", "l", "a", "s", "s">>,
            <<"F", "C">>,
            <<"T", "1", "0">> } :
       conversion' =
         [kind |-> "provider", rawStatus |-> status, matchStarted |-> matchStarted,
          matchEnded |-> matchEnded, rawFormat |-> matchType,
          status |-> providerMapStatus(status, matchStarted, matchEnded),
          format |-> providerMapFormat(matchType),
          dbStatus |-> mapStatus(providerMapStatus(status, matchStarted, matchEnded)),
          dbFormat |-> mapFormat(providerMapFormat(matchType))]
  /\ UNCHANGED everythingButConversion

\* processMatch converts the words of any ApiMatch
ConvertWords ==
  /\ \E status \in StatusWords, format \in FormatWords :
       conversion' =
         [NoConversion EXCEPT !.kind = "poller", !.status = status, !.format = format,
                              !.dbStatus = mapStatus(status),
                              !.dbFormat = mapFormat(format)]
  /\ UNCHANGED everythingButConversion

NextMapping == ConvertProviderRecord \/ ConvertWords

MappingSpec == Init /\ [][NextMapping]_vars

(***************************************************************************)
(* Reference resolution: the upserts of ensureTeam, ensureCompetition, the *)
(* 'default' competition and the data sync, on tables with full rows       *)
(***************************************************************************)
\* variant: every resolution inserts a row
upsertAlwaysCreate(table, nextId, externalId, name, refresh) ==
  [table |-> table \cup {[id |-> nextId, externalId |-> externalId, name |-> name]},
   id |-> nextId, nextId |-> nextId + 1]

\* prisma.<table>.upsert({ where: { externalId }, create, update }): the row
\* with that externalId gets the update data (its name, when the update
\* refreshes it), or a row is created; the result is the row's id
upsert(table, nextId, externalId, name, refresh) ==
  IF \E r \in table : r.externalId = externalId
  THEN [table |-> { IF r.externalId = externalId /\ refresh
                    THEN [r EXCEPT !.name = name] ELSE r : r \in table },
        id |-> (CHOOSE r \in table : r.externalId = externalId).id,
        nextId |-> nextId]
  ELSE [table |-> table \cup {[id |-> nextId, externalId |-> externalId, name |-> name]},
        id |-> nextId, nextId |-> nextId + 1]

\* ensureTeam(apiTeam), on the whole record of tables
ensureTeam(r, apiTeam) ==
  LET u == upsert(r.teams, r.nextId, apiTeam.id, apiTeam.name, TRUE)
  IN [r EXCEPT !.teams = u.table, !.nextId = u.nextId,
               !.issued = @ \cup {<<"Team", apiTeam.id, u.id>>}]

\* ensureCompetition(apiCompetition)
ensureCompetition(r, apiCompetition) ==
  LET u == upsert(r.competitions, r.nextId, apiCompetition.id, apiCompetition.name, TRUE)
  IN [r EXCEPT !.competitions = u.table, !.nextId = u.nextId,
               !.issued = @ \cup {<<"Competition", apiCompetition.id, u.id>>}]

\* variant: the sentinel is made with create, not upsert
ensureDefaultCompetitionByCreate(r) ==
  [r EXCEPT !.competitions = @ \cup {[id |-> r.nextId, externalId |-> "default",
                                      name |-> "Other Matches"]},
            !.nextId = @ + 1,
            !.issued = @ \cup {<<"Competition", "default", r.nextId>>}]

\* the upsert of the 'default' competition: `update: {}`
ensureDefaultCompetition(r) ==
  LET u == upsert(r.competitions, r.nextId, "default", "Other Matches", FALSE)
  IN [r EXCEPT !.competitions = u.table, !.nextId = u.nextId,
               !.issued = @ \cup {<<"Competition", "default", u.id>>}]

\* team and competition stubs as snapshots carry them; the provider may
\* report another display name for the same externalId
TeamStubs ==
  { [id |-> "team_IND", name |-> "India"], [id |-> "team_IND", name |-> "India Men"],
    [id |-> "team_AUS", name |-> "Australia"], [id |-> "team_ENG", name |-> "England"],
    [id |-> "team_ENG", name |-> "England Men"] }
CompetitionStubs ==
  { [id |-> "ipl", name |-> "IPL"], [id |-> "ipl", name |-> "Indian Premier League"] }

everythingButRefs ==
  <<teams, competitions, matches, favorites, prefs, notifications, jobs, applied,
    detected, emitted, fanned, lastPoll, fanoutLog, lastFanout, counters, delivery,
    scheduler, conversion,
    subscriptions, favoriteCalls, cache, feed>>

\* the reference part of processMatch: both teams, then the competition of
\* the snapshot or the default one
processMatchReferences ==
  /\ \E homeTeam \in TeamStubs, awayTeam \in TeamStubs,
        hasCompetition \in BOOLEAN, competition \in CompetitionStubs :
       /\ homeTeam.id # awayTeam.id
       /\ LET r1 == ensureTeam(ensureTeam(refs, homeTeam), awayTeam)
          IN refs' = IF hasCompetition THEN ensureCompetition(r1, competition)
                                       ELSE ensureDefaultCompetition(r1)
  /\ UNCHANGED everythingButRefs

RECURSIVE UpsertAll(_, _, _)
UpsertAll(r, stubs, kind) ==
  IF stubs = << >> THEN r
  ELSE UpsertAll(IF kind = "Team" THEN ensureTeam(r, Head(stubs))
                                  ELSE ensureCompetition(r, Head(stubs)),
                 Tail(stubs), kind)

\* the teamsMap of the data sync: the first stub seen per team id
RECURSIVE TeamsMap(_, _)
TeamsMap(stubs, seen) ==
  IF stubs = << >> THEN << >>
  ELSE IF Head(stubs).id \in seen THEN TeamsMap(Tail(stubs), seen)
  ELSE <<Head(stubs)>> \o TeamsMap(Tail(stubs), seen \cup {Head(stubs).id})

\* syncTeamsAndCompetitions: the competitions of the provider, then the
\* teams of one fetched match
syncTeamsAndCompetitions ==
  /\ \E comps \in {<< >>} \cup { <<c>> : c \in CompetitionStubs },
        homeTeam \in TeamStubs, awayTeam \in TeamStubs :
       refs' = UpsertAll(UpsertAll(refs, comps, "Competition"),
                         TeamsMap(<<homeTeam, awayTeam>>, {}), "Team")
  /\ UNCHANGED everythingButRefs

NextRefs == processMatchReferences \/ syncTeamsAndCompetitions

RefSpec == Init /\ [][NextRefs]_vars

(***************************************************************************)
(* The reference fields of Match rows: processMatch on tables with full    *)
(* rows, fed with ApiMatch values and with what mapMatch makes of the      *)
(* provider's records                                                      *)
(***************************************************************************)
MaxCalls == 3

\* a null foreign key (ids of rows start at 1)
NoId == 0

\* JavaScript truthiness of an optional string
Truthy(text) == text \notin {Null, ""}

\* row.id of the row an upsert returned
IdOf(table, externalId) == (CHOOSE row \in table : row.externalId = externalId).id

\* processMatch up to its match upsert; of the row, the foreign keys
\* (`attributed` records whether the creating snapshot had a competition)
storeMatch(r, apiMatch) ==
  LET r1 == ensureTeam(r, apiMatch.homeTeam)
      homeTeamId == IdOf(r1.teams, apiMatch.homeTeam.id)
      r2 == ensureTeam(r1, apiMatch.awayTeam)
      awayTeamId == IdOf(r2.teams, apiMatch.awayTeam.id)
      r3 == IF apiMatch.hasCompetition THEN ensureCompetition(r2, apiMatch.competition)
                                       ELSE ensureDefaultCompetition(r2)
      competitionId == IdOf(r3.competitions, IF apiMatch.hasCompetition
                                             THEN apiMatch.competition.id ELSE "default")
      TeamRef(ref) == IF Truthy(ref)
                      THEN (IF ref = apiMatch.homeTeam.id THEN homeTeamId ELSE awayTeamId)
                      ELSE NoId
      row == IF apiMatch.id \in DOMAIN r.matches
             THEN [r.matches[apiMatch.id] EXCEPT
                     !.tossWinnerId = TeamRef(apiMatch.tossWinner),
                     !.winnerId = TeamRef(apiMatch.winner)]
             ELSE [competitionId |-> competitionId,
                   homeTeamId |-> homeTeamId, awayTeamId |-> awayTeamId,
                   tossWinnerId |-> TeamRef(apiMatch.tossWinner),
                   winnerId |-> TeamRef(apiMatch.winner),
                   attributed |-> apiMatch.hasCompetition]
  IN [r3 EXCEPT !.matches = [x \in (DOMAIN r.matches) \cup {apiMatch.id} |->
                               IF x = apiMatch.id THEN row ELSE r.matches[x]],
                !.calls = @ + 1]

\* processMatch(apiMatch) for ApiMatch values.  The snapshots of one match may
\* name different teams (the provider can replace a side between two polls);
\* the optional tossWinner is absent, empty, the home team or an unknown id
processSnapshot ==
  /\ refs.calls < MaxCalls
  /\ \E m \in MatchIds,
        pair \in { <<[id |-> "team_IND", name |-> "India"],
                     [id |-> "team_AUS", name |-> "Australia"]>>,
                   <<[id |-> "team_ENG", name |-> "England"],
                     [id |-> "team_AUS", name |-> "Australia"]>> },
        hasCompetition \in BOOLEAN :
     \E tossWinner \in {Null, "", pair[1].id, "team_XYZ"}, winner \in {Null, pair[2].id} :
       refs' = storeMatch(refs,
                 [id |-> m, homeTeam |-> pair[1], awayTeam |-> pair[2],
                  hasCompetition |-> hasCompetition,
                  competition |-> [id |-> "ipl", name |-> "IPL"],
                  tossWinner |-> tossWinner, winner |-> winner])
  /\ UNCHANGED everythingButRefs

\* CricketDataProvider.mapMatch: the teams come from teamInfo, else from the
\* names in teams; no competition, toss winner or winner is set
mapMatch(match) ==
  LET \* `team_${shortname}`
      TeamIdOf(shortname) ==
        CASE shortname = "IND" -> "team_IND"
          [] shortname = "AUS" -> "team_AUS"
          [] shortname = "Australia" -> "team_Australia"
          [] shortname = "Tbc" -> "team_Tbc"
          [] OTHER -> "team_undefined"
      homeTeam == IF Len(match.teamInfo) >= 1 THEN match.teamInfo[1]
                  ELSE [name |-> match.teams[1], shortname |-> match.teams[1]]
      awayTeam == IF Len(match.teamInfo) >= 2 THEN match.teamInfo[2]
                  ELSE [name |-> match.teams[2], shortname |-> match.teams[2]]
  IN [id |-> match.id,
      homeTeam |-> [id |-> TeamIdOf(homeTeam.shortname), name |-> homeTeam.name],
      awayTeam |-> [id |-> TeamIdOf(awayTeam.shortname), name |-> awayTeam.name],
      hasCompetition |-> FALSE, competition |-> [id |-> Null, name |-> Null],
      tossWinner |-> Null, winner |-> Null]

\* processMatch on a snapshot of the provider.  The records: with teamInfo,
\* with one teamInfo entry, and a fixture whose sides are not known yet
processProviderMatch ==
  /\ refs.calls < MaxCalls
  /\ \E match \in
          { [id |-> "m2", teams |-> <<"India", "Australia">>,
             teamInfo |-> <<[name |-> "India", shortname |-> "IND"],
                            [name |-> "Australia", shortname |-> "AUS"]>>],
            [id |-> "m2", teams |-> <<"India", "Australia">>,
             teamInfo |-> <<[name |-> "India", shortname |-> "IND"]>>],
            [id |-> "m2", teams |-> <<"Tbc", "Tbc">>, teamInfo |-> << >>] } :
       refs' = storeMatch(refs, mapMatch(match))
  /\ UNCHANGED everythingButRefs

NextRows == processSnapshot \/ processProviderMatch

RowSpec == Init /\ [][NextRows]_vars

(***************************************************************************)
(* Favourite teams and subscriptions: addFavorite between its awaits,      *)
(* removeFavorite, and the Stripe webhook's handlers                       *)
(***************************************************************************)
FREE_FAVORITES_LIMIT == 3

\* the user the requests come from, and the team ids they name
FavUsers == {"u1"}
FavTeamExternalIds == {"team_IND", "team_AUS", "team_ENG", "team_NZ"}


\* subscription?.plan === 'PRO' && subscription?.status === 'ACTIVE'
isPro(subscription) == subscription.plan = "PRO" /\ subscription.status = "ACTIVE"

\* favoriteTeam.count({ where: { userId } })
favoritesCount(favs, userId) == Cardinality({ f \in favs : f.userId = userId })

everythingButFavorites ==
  <<teams, competitions, matches, prefs, notifications, jobs, applied, detected,
    emitted, fanned, lastPoll, fanoutLog, lastFanout, counters, delivery, scheduler,
    conversion, refs, cache, feed>>

\* addFavorite, first await: subscription and count are read together; a
\* user who is not Pro and has reached the limit gets FORBIDDEN
addFavoriteCheck(c) ==
  /\ favoriteCalls[c].pc = "idle"
  /\ \E userId \in FavUsers,
        teamId \in { TeamDbId(e) : e \in FavTeamExternalIds } \cup {"team#missing"} :
       /\ isPro(subscriptions[userId])
            \/ favoritesCount(favorites, userId) < FREE_FAVORITES_LIMIT
       /\ favoriteCalls' = [favoriteCalls EXCEPT
                              ![c] = [pc |-> "checked", userId |-> userId, teamId |-> teamId]]
  /\ UNCHANGED <<favorites, subscriptions>>
  /\ UNCHANGED everythingButFavorites

\* addFavorite, the two lookups: NOT_FOUND for an unknown team, CONFLICT for
\* a team that is a favourite already
addFavoriteLookup(c) ==
  /\ favoriteCalls[c].pc = "checked"
  /\ LET call == favoriteCalls[c]
         found == \E e \in teams : TeamDbId(e) = call.teamId
         existing == [userId |-> call.userId, teamId |-> call.teamId] \in favorites
     IN favoriteCalls' = [favoriteCalls EXCEPT
                            ![c] = IF found /\ ~existing THEN [call EXCEPT !.pc = "found"]
                                   ELSE IdleCall]
  /\ UNCHANGED <<favorites, subscriptions>>
  /\ UNCHANGED everythingButFavorites

\* addFavorite, favoriteTeam.create (userId, teamId is a unique key)
addFavoriteCreate(c) ==
  /\ favoriteCalls[c].pc = "found"
  /\ favorites' = favorites \cup {[userId |-> favoriteCalls[c].userId,
                                   teamId |-> favoriteCalls[c].teamId]}
  /\ favoriteCalls' = [favoriteCalls EXCEPT ![c] = IdleCall]
  /\ UNCHANGED subscriptions
  /\ UNCHANGED everythingButFavorites

\* removeFavorite: favoriteTeam.delete, which throws when there is no row
removeFavorite ==
  /\ \E f \in favorites : f.userId \in FavUsers /\ favorites' = favorites \ {f}
  /\ UNCHANGED <<subscriptions, favoriteCalls>>
  /\ UNCHANGED everythingButFavorites

\* handleCheckoutComplete: subscription.update({ where: { userId } })
handleCheckoutComplete ==
  /\ \E userId \in FavUsers :
       subscriptions' = [subscriptions EXCEPT
                           ![userId] = [plan |-> "PRO", status |-> "ACTIVE",
                                        stripeSubscriptionId |-> "sub_1"]]
  /\ UNCHANGED <<favorites, favoriteCalls>>
  /\ UNCHANGED everythingButFavorites

\* handleSubscriptionDeleted, for the subscription the event names
handleSubscriptionDeleted ==
  /\ \E userId \in FavUsers :
       /\ subscriptions[userId].stripeSubscriptionId = "sub_1"
       /\ subscriptions' = [subscriptions EXCEPT
                              ![userId] = [plan |-> "FREE", status |-> "CANCELED",
                                           stripeSubscriptionId |-> Null]]
  /\ UNCHANGED <<favorites, favoriteCalls>>
  /\ UNCHANGED everythingButFavorites

\* handlePaymentFailed
handlePaymentFailed ==
  /\ \E userId \in FavUsers :
       /\ subscriptions[userId].stripeSubscriptionId = "sub_1"
       /\ subscriptions' = [subscriptions EXCEPT ![userId].status = "PAST_DUE"]
  /\ UNCHANGED <<favorites, favoriteCalls>>
  /\ UNCHANGED everythingButFavorites

\* the server starts with four teams on file; u1 follows two, u2 one
FavInit ==
  /\ teams = FavTeamExternalIds
  /\ competitions = {}
  /\ matches = << >>
  /\ favorites = InitialFavorites
  /\ prefs = UNION { DefaultPrefs(u) : u \in Users }
  /\ notifications = EmptyBag
  /\ jobs = [j \in 1..2 |-> IdleJob]
  /\ applied = [m \in MatchIds |-> NoMatch]
  /\ detected = ZeroCounts
  /\ emitted = ZeroCounts
  /\ fanned = ZeroCounts
  /\ lastPoll = NoPoll
  /\ fanoutLog = {}
  /\ lastFanout = NoFanout
  /\ counters = [jobs |-> 0, prefUpdates |-> 0]
  /\ delivery = IdleDelivery(TRUE)
  /\ scheduler = Started
  /\ conversion = NoConversion
  /\ refs = SyncedRefs
  /\ subscriptions = [u \in Users |-> FreeSubscription]
  /\ favoriteCalls = [c \in CallSlots |-> IdleCall]
  /\ cache = ColdCache(TRUE)
  /\ feed = QuietFeed

NextFavorites ==
  \/ \E c \in CallSlots : addFavoriteCheck(c) \/ addFavoriteLookup(c) \/ addFavoriteCreate(c)
  \/ removeFavorite
  \/ handleCheckoutComplete
  \/ handleSubscriptionDeleted
  \/ handlePaymentFailed

FavSpec == FavInit /\ [][NextFavorites]_vars

(***************************************************************************)
(* The cache of lib/redis.ts, for one key: Redis first, the in-memory map  *)
(* when there is no client or a command throws                             *)
(***************************************************************************)
MaxTime == 3



\* try { JSON.parse(text) } catch { text }: a text that is JSON comes back
\* as the value it denotes, any other text as a string
parsed(text) ==
  CASE text = "{\"matches\":1}" -> [type |-> "object", text |-> text]
    [] text = "123" -> [type |-> "number", text |-> text]
    [] OTHER -> [type |-> "string", text |-> text]

\* Redis answers commands: there is a client and the connection is up
redisAnswers(c) == c.configured /\ c.up

everythingButCache ==
  <<teams, competitions, matches, favorites, prefs, notifications, jobs, applied,
    detected, emitted, fanned, lastPoll, fanoutLog, lastFanout, counters, delivery,
    scheduler, conversion, refs, subscriptions, favoriteCalls, feed>>

\* cache.set(key, value, ttlSeconds), for JavaScript values given by type and
\* JSON text
cacheSet ==
  /\ \E value \in { [type |-> "object", text |-> "{\"matches\":1}"],
                    [type |-> "string", text |-> "hello"],
                    [type |-> "string", text |-> "123"] },
        ttlSeconds \in {1, 2} :
       LET \* typeof value === 'string' ? value : JSON.stringify(value)
           stringValue == value.text
           entry == [text |-> stringValue,
                     expiry |-> IF ttlSeconds # 0 THEN cache.now + ttlSeconds ELSE 0]
           written == IF redisAnswers(cache) THEN [cache EXCEPT !.redis = entry]
                                             ELSE [cache EXCEPT !.memoryCache = entry]
       IN cache' = [written EXCEPT
                      !.lastSet = [value |-> value, at |-> cache.now,
                                   ttlSeconds |-> ttlSeconds],
                      !.got = NoGet]
  /\ UNCHANGED everythingButCache

\* cache.get(key)
cacheGet ==
  /\ LET \* isExpired(expiry), the clock in seconds
         isExpired(expiry) == expiry # 0 /\ cache.now > expiry
         \* what redis.get returns: the text, or null once SETEX's time has
         \* run out
         value == IF cache.redis.text # Null
                     /\ (cache.redis.expiry = 0 \/ cache.now < cache.redis.expiry)
                  THEN cache.redis.text ELSE Null
     IN cache' =
          IF redisAnswers(cache)
          THEN [cache EXCEPT
                  !.got = IF ~Truthy(value)
                          THEN [NoGet EXCEPT !.ran = TRUE, !.from = "redis"]
                          ELSE [ran |-> TRUE, value |-> parsed(value), from |-> "redis",
                                expiry |-> cache.redis.expiry]]
          ELSE IF cache.memoryCache.text = Null \/ isExpired(cache.memoryCache.expiry)
               THEN [cache EXCEPT !.memoryCache = NoEntry,
                                  !.got = [NoGet EXCEPT !.ran = TRUE, !.from = "memory"]]
               ELSE [cache EXCEPT
                       !.got = [ran |-> TRUE, value |-> parsed(cache.memoryCache.text),
                                from |-> "memory", expiry |-> cache.memoryCache.expiry]]
  /\ UNCHANGED everythingButCache

\* cache.del(key): Redis' entry when the command succeeds, the map's always
cacheDel ==
  /\ cache' = [cache EXCEPT !.redis = IF redisAnswers(cache) THEN NoEntry ELSE @,
                            !.memoryCache = NoEntry, !.lastSet = NoSet, !.got = NoGet]
  /\ UNCHANGED everythingButCache

\* the connection to Redis is lost (commands throw) or comes back
RedisDown ==
  /\ cache.configured /\ cache.up
  /\ cache' = [cache EXCEPT !.up = FALSE, !.got = NoGet]
  /\ UNCHANGED everythingButCache

RedisUp ==
  /\ cache.configured /\ ~cache.up
  /\ cache' = [cache EXCEPT !.up = TRUE, !.got = NoGet]
  /\ UNCHANGED everythingButCache

\* a second passes
Tick ==
  /\ cache.now < MaxTime
  /\ cache' = [cache EXCEPT !.now = @ + 1, !.got = NoGet]
  /\ UNCHANGED everythingButCache

CacheInit ==
  \E configured \in BOOLEAN :
     /\ teams = TeamExternalIds
     /\ competitions = {}
     /\ matches = << >>
     /\ favorites = InitialFavorites
     /\ prefs = UNION { DefaultPrefs(u) : u \in Users }
     /\ notifications = EmptyBag
     /\ jobs = [j \in 1..2 |-> IdleJob]
     /\ applied = [m \in MatchIds |-> NoMatch]
     /\ detected = ZeroCounts
     /\ emitted = ZeroCounts
     /\ fanned = ZeroCounts
     /\ lastPoll = NoPoll
     /\ fanoutLog = {}
     /\ lastFanout = NoFanout
     /\ counters = [jobs |-> 0, prefUpdates |-> 0]
     /\ delivery = IdleDelivery(TRUE)
     /\ scheduler = Started
     /\ conversion = NoConversion
     /\ refs = SyncedRefs
     /\ subscriptions = [u \in Users |-> FreeSubscription]
     /\ favoriteCalls = [c \in CallSlots |-> IdleCall]
     /\ cache = ColdCache(configured)
     /\ feed = QuietFeed

NextCache == cacheSet \/ cacheGet \/ cacheDel \/ RedisDown \/ RedisUp \/ Tick

CacheSpec == CacheInit /\ [][NextCache]_vars

(***************************************************************************)
(* Polls of matches that go through their statuses in order: each snapshot *)
(* repeats the stored status or takes the next step                        *)
(***************************************************************************)
\* the snapshots of match m that continue its path: the toss is known from
\* toss_done on, the winner with the completion
PathSnapshotsOf(m) ==
  LET StoredStatus == IF m \in DOMAIN matches THEN matches[m].status ELSE Null
      \* the provider statuses that can follow a stored status
      FollowingStatuses(status) ==
        CASE status = Null            -> {"scheduled"}
          [] status = "SCHEDULED"     -> {"scheduled", "toss_done"}
          [] status = "TOSS_DONE"     -> {"toss_done", "live"}
          [] status = "LIVE"          -> {"live", "innings_break", "completed"}
          [] status = "INNINGS_BREAK" -> {"innings_break", "live"}
          [] OTHER                    -> {"completed"}
  IN { s \in { ApiMatch(m, st, toss, win, res, Null, TRUE) :
                 st \in FollowingStatuses(StoredStatus),
                 toss \in {Null, HomeOf(m), AwayOf(m)},
                 win \in {Null, HomeOf(m), AwayOf(m)}, res \in ResultTexts } :
         /\ (s.status = "scheduled") = (s.tossWinner = Null)
         /\ (s.status # "completed") => (s.winner = Null /\ s.result = Null) }

pollAlongPath ==
  \E m \in MatchIds : \E s \in PathSnapshotsOf(m) :
     PollCycle("live-matches", TRUE, <<s>>, NoFault)

NextPath == pollAlongPath

PathSpec == Init /\ [][NextPath]_vars

(***************************************************************************)
(* The polls fed by CricketDataProvider: the provider's records change     *)
(* over the life of a match, getLiveMatches and getUpcomingMatches filter  *)
(* and map them, the poll functions process what they return               *)
(***************************************************************************)
\* mapMatch, the part processMatch diffs: status and result (the mapping
\* sets no toss winner, winner or competition)
mapMatchState(m, match) ==
  LET \* the text of a record as the string stored in Match.result
      ResultString == IF match.status = <<"I", "n", "d", "i", "a", " ", "w", "o", "n">>
                      THEN "India won" ELSE "other text"
  IN ApiMatch(m, providerMapStatus(match.status, match.matchStarted, match.matchEnded),
              Null, Null,
              IF match.matchEnded THEN ResultString ELSE Null,
              Null, TRUE)

\* .map((m) => this.mapMatch(m)) over the records that passed the filter
RECURSIVE Mapped(_, _)
Mapped(f, ids) ==
  IF ids = << >> THEN << >>
  ELSE <<mapMatchState(Head(ids), f[Head(ids)])>> \o Mapped(f, Tail(ids))

\* data.data.filter((m) => m.matchStarted && !m.matchEnded).map(mapMatch)
getLiveMatches(f) ==
  Mapped(f, SelectSeq(<<"m1", "m2">>,
                      LAMBDA m : f[m].matchStarted /\ ~f[m].matchEnded))

\* filter: !m.matchStarted and the date within the next `days` days
getUpcomingMatches(f) ==
  Mapped(f, SelectSeq(<<"m1", "m2">>,
                      LAMBDA m : ~f[m].matchStarted /\ f[m].withinDays))

\* pollLiveMatches on `matches = await cricketApi.getLiveMatches()` and
\* pollUpcomingMatches on `matches = await cricketApi.getUpcomingMatches(7)`
pollProvider ==
  \E endpoint \in {"live-matches", "upcoming-matches"} :
     \E batch \in {IF endpoint = "live-matches" THEN getLiveMatches(feed)
                                                ELSE getUpcomingMatches(feed)} :
        PollCycle(endpoint, TRUE, batch, NoFault)

\* the provider changes a record: another text before the start, the start or
\* another text in play, the end
providerUpdates ==
  /\ \E m \in MatchIds :
       \/ /\ ~feed[m].matchStarted
          /\ \E text \in { <<"N", "o", "t", " ", "s", "t", "a", "r", "t", "e", "d">>,
                           <<"T", "o", "s", "s">> } :
               feed' = [feed EXCEPT ![m].status = text]
       \/ /\ ~feed[m].matchEnded
          /\ \E text \in { <<"L", "i", "v", "e">>,
                           <<"I", "n", "n", "i", "n", "g", "s", " ", "B", "r", "e", "a", "k">> } :
               feed' = [feed EXCEPT ![m].status = text, ![m].matchStarted = TRUE]
       \/ /\ feed[m].matchStarted /\ ~feed[m].matchEnded
          /\ feed' = [feed EXCEPT ![m].status = <<"I", "n", "d", "i", "a", " ", "w", "o", "n">>,
                                  ![m].matchEnded = TRUE]
  /\ UNCHANGED <<teams, competitions, matches, favorites, prefs, notifications, jobs,
                 applied, detected, emitted, fanned, lastPoll, fanoutLog, lastFanout,
                 counters, delivery, scheduler, conversion, refs, subscriptions,
                 favoriteCalls, cache>>

NextFeed == pollProvider \/ providerUpdates

FeedSpec == Init /\ [][NextFeed]_vars

(***************************************************************************)
(* Properties                                                              *)
(***************************************************************************)
Runs == { lastPoll.runs[i] : i \in DOMAIN lastPoll.runs }
EventsOfType(run, type) == SelectSeq(run.events, LAMBDA e : e.type = type)
RowsOf(matchId, type, userId, channel) ==
  { r \in BagToSet(notifications) :
      r.data.matchId = matchId /\ r.type = type /\ r.userId = userId /\ r.channel = channel }

\* C1: a processMatch run that re-applies the snapshot applied to the match by
\* the previous run emits no domain event and creates no Notification row (so
\* a SCHEDULED -> LIVE change re-polled any number of times keeps its single
\* MATCH_START).
C1_RepollIsEventFree ==
  \A run \in Runs : run.repeat => run.events = << >> /\ run.created = 0

\* a LIVE snapshot was re-polled after its SCHEDULED -> LIVE change was notified
C1_Witness ==
  \E run \in Runs :
     /\ run.repeat
     /\ matches[run.matchId].status = "LIVE"
     /\ emitted[run.matchId]["MATCH_START"] = 1

\* C2: when createMatchNotification completes for an event it already
\* completed for, with the same favourites and preferences, there is at most
\* one Notification row per (matchId, type, user, channel) of that event.
C2_FanoutIdempotent ==
  lastFanout.again =>
    \A u \in Users, c \in {"EMAIL", "IN_APP", "PUSH"} :
       \A r \in RowsOf(lastFanout.event.matchId, lastFanout.event.type, u, c) :
          /\ CopiesIn(r, notifications) <= 1
          /\ RowsOf(lastFanout.event.matchId, lastFanout.event.type, u, c) = {r}

\* C3: with overlapping poll jobs, every transition is notified at most once:
\* no more events of a type are emitted for a match than transitions of that
\* type were persisted for it.
C3_TransitionNotifiedOnce ==
  \A m \in MatchIds : \A t \in EventTypes : emitted[m][t] <= detected[m][t]

\* C4: no detected transition is lost: once a poll has processed a match
\* without error, every transition persisted for that match has had its
\* fan-out completed (by that poll or an earlier one).
C4_NoTransitionLost ==
  \A run \in Runs :
     (run.ok /\ run.upserted) =>
        \A t \in EventTypes : fanned[run.matchId][t] >= detected[run.matchId][t]

\* C5: when processMatch fails for a match of a batch, every other match of
\* the batch is still processed in that cycle.
C5_FailureIsolatedPerMatch ==
  (lastPoll.fetched /\ \E run \in Runs : ~run.ok) =>
     \A i \in DOMAIN lastPoll.ids :
        \E run \in Runs : run.matchId = lastPoll.ids[i] /\ (run.upserted \/ ~run.ok)

\* C6: a poll in which the stored tossWinnerId goes from unset to set emits
\* one TOSS_RESULT, and no match ever gets a second TOSS_RESULT.
C6_TossExactlyOnce ==
  /\ [][ \A m \in DOMAIN matches :
           (matches[m].tossWinnerId = Null /\ matches'[m].tossWinnerId # Null)
           => \E i \in DOMAIN lastPoll'.runs :
                 /\ lastPoll'.runs[i].matchId = m
                 /\ Len(EventsOfType(lastPoll'.runs[i], "TOSS_RESULT")) = 1 ]_vars
  /\ [](\A m \in MatchIds : emitted[m]["TOSS_RESULT"] <= 1)

\* C7: over any sequence of polls of a match at most one MATCH_RESULT event
\* is emitted for it.
C7_ResultAtMostOnce ==
  \A m \in MatchIds : emitted[m]["MATCH_RESULT"] <= 1

\* C8: a poll that moves a stored match from a status other than COMPLETED to
\* COMPLETED with winnerId set emits exactly one MATCH_RESULT, whose body is
\* the snapshot's result text, or the default text when there is none; a poll
\* that leaves the match COMPLETED without winnerId emits no MATCH_RESULT.
C8_ResultOnCompletion ==
  /\ [][ \A m \in DOMAIN matches :
           (/\ matches[m].status # "COMPLETED"
            /\ matches'[m].status = "COMPLETED"
            /\ matches'[m].winnerId # Null)
           => \E i \in DOMAIN lastPoll'.runs :
                LET results == EventsOfType(lastPoll'.runs[i], "MATCH_RESULT")
                IN /\ lastPoll'.runs[i].matchId = m
                   /\ Len(results) = 1
                   /\ IF applied'[m].result # Null
                      THEN results[1].body = <<applied'[m].result>>
                      ELSE /\ Len(results[1].body) = 2
                           /\ results[1].body[2] = "has won the match" ]_vars
  /\ [](\A run \in Runs :
          (/\ run.upserted
           /\ matches[run.matchId].status = "COMPLETED"
           /\ matches[run.matchId].winnerId = Null)
          => EventsOfType(run, "MATCH_RESULT") = << >>)

\* the last poll emitted a MATCH_RESULT carrying the provider's result text
C8_Witness ==
  \E run \in Runs :
     /\ run.existed
     /\ Len(EventsOfType(run, "MATCH_RESULT")) = 1
     /\ EventsOfType(run, "MATCH_RESULT")[1].body = <<"Australia won by 5 wickets">>
     /\ matches[run.matchId].status = "COMPLETED"

\* C9: a processMatch run that finds no stored Match creates the Match and
\* its Team and Competition rows, emits no domain event and creates no
\* Notification row.
C9_FirstObservationSilent ==
  \A run \in Runs :
     (run.upserted /\ ~run.existed) =>
        /\ run.events = << >>
        /\ run.created = 0
        /\ run.matchId \in DOMAIN matches
        /\ {HomeOf(run.matchId), AwayOf(run.matchId)} \subseteq teams
        /\ \E c \in competitions :
              matches[run.matchId].competitionId = CompetitionDbId(c)

\* a match was first observed already COMPLETED, with toss and winner set
C9_Witness ==
  \E run \in Runs :
     /\ run.upserted /\ ~run.existed
     /\ matches[run.matchId].status = "COMPLETED"
     /\ matches[run.matchId].tossWinnerId # Null
     /\ matches[run.matchId].winnerId # Null

\* C10: a fan-out creates no row for a user on a channel (IN_APP or EMAIL)
\* whose preference for the event type is disabled, whatever other preference
\* rows (team-scoped ones) the user has.
C10_DisabledChannelGetsNoRow ==
  \A u \in Users, c \in {"IN_APP", "EMAIL"} :
     (\E p \in lastFanout.prefs :
         /\ p.userId = u /\ p.teamId = Null
         /\ p.type = lastFanout.event.type /\ p.channel = c /\ ~p.enabled)
     => ~\E r \in lastFanout.rows : r.userId = u /\ r.channel = c

C12_FailedEmailRetriedNextDrain ==
  /\ [](\A r \in BagToSet(delivery.failed) :
          r.sentAt = Null /\ CopiesIn(r, notifications) >= CopiesIn(r, delivery.failed))
  /\ [][ \A r \in BagToSet(delivery.failed) :
           CopiesIn(r, delivery'.selected) >= CopiesIn(r, delivery.failed) ]_vars
  /\ [](\A r \in BagToSet(delivery.selected) : r.sentAt = Null)

\* C13: a Notification row has sentAt set only if resend accepted an email
\* for it: there are never more rows marked sent than emails accepted.
C13_SentAtMeansDelivered ==
  \A r \in BagToSet(notifications) :
     r.sentAt # Null =>
        CopiesIn(r, notifications) <= CopiesIn([r EXCEPT !.sentAt = Null], delivery.accepted)

\* C14: a poll cycle that fails on a snapshot-source error is reported to the
\* queue as a failed job (which is what makes the queue retry it).
C14_FetchFailureFailsTheJob ==
  (lastPoll.endpoint # Null /\ ~lastPoll.fetched) => lastPoll.job = "failed"

\* C15: every poll cycle appends one sync-log record: success with the record
\* count when the cycle completes (also for an empty list), error when the
\* fetch or the processing fails; a cycle whose fetch failed writes no match.
C15_OneSyncLogPerCycle ==
  lastPoll.endpoint # Null =>
     /\ lastPoll.log # Null
     /\ (lastPoll.fetched /\ \A run \in Runs : run.ok)
          => (lastPoll.log = "success" /\ lastPoll.recordsCount = Len(lastPoll.ids))
     /\ (~lastPoll.fetched \/ \E run \in Runs : ~run.ok) => lastPoll.log = "error"
     /\ ~lastPoll.fetched => lastPoll.runs = << >>

\* C16: once a match's stored status is COMPLETED, ABANDONED or NO_RESULT no
\* poll changes it to a non-terminal status.
C16_TerminalStatusAbsorbing ==
  [][ \A m \in DOMAIN matches :
        matches[m].status \in {"COMPLETED", "ABANDONED", "NO_RESULT"}
        => matches'[m].status \in {"COMPLETED", "ABANDONED", "NO_RESULT"} ]_vars

\* C17: a poll that moves the stored status from another status to
\* INNINGS_BREAK emits exactly one INNINGS_BREAK event, and a poll of a match
\* whose stored status already was INNINGS_BREAK emits none.
C17_InningsBreakOnEntry ==
  [][ \A m \in DOMAIN matches :
        \A i \in DOMAIN lastPoll'.runs :
           (lastPoll'.runs[i].matchId = m /\ lastPoll'.runs[i].upserted) =>
              Len(EventsOfType(lastPoll'.runs[i], "INNINGS_BREAK")) =
                 (IF matches[m].status # "INNINGS_BREAK"
                     /\ matches'[m].status = "INNINGS_BREAK" THEN 1 ELSE 0) ]_vars

\* the last poll moved a stored match into INNINGS_BREAK and emitted the event
C17_Witness ==
  \E run \in Runs :
     /\ run.existed
     /\ Len(EventsOfType(run, "INNINGS_BREAK")) = 1
     /\ matches[run.matchId].status = "INNINGS_BREAK"
     /\ run.created > 0

\* C18: once setupRecurringJobs has completed, each of the four triggers has
\* exactly one registration in the queue and nothing else is registered,
\* whatever registrations earlier starts left behind.
C18_OneRegistrationPerTrigger ==
  scheduler.pc = "running" =>
     /\ \A job \in RecurringJobs :
           { r \in scheduler.repeatables : r.name = job.name \/ r.type = job.type } = {job}
     /\ scheduler.repeatables = RecurringJobs

\* the worker runs after a second start that found registrations in the queue
C18_Witness ==
  /\ scheduler.pc = "running"
  /\ scheduler.starts = 2
  /\ Cardinality(scheduler.repeatables) = 4

C20_ReferencesKeyedByExternalId ==
  /\ [](\A a \in refs.teams, b \in refs.teams : a.externalId = b.externalId => a = b)
  /\ [](\A a \in refs.competitions, b \in refs.competitions :
           a.externalId = b.externalId => a = b)
  /\ [](\A x \in refs.issued, y \in refs.issued :
           (x[1] = y[1] /\ x[2] = y[2]) => x[3] = y[3])
  /\ [][ /\ \A a \in refs.teams :
              \E b \in refs'.teams : b.id = a.id /\ b.externalId = a.externalId
         /\ \A a \in refs.competitions :
              \E b \in refs'.competitions : b.id = a.id /\ b.externalId = a.externalId ]_vars

\* a team was resolved again under another display name, a new team and the
\* default competition were created
C20_Witness ==
  /\ \E t \in refs.teams : t.externalId = "team_IND" /\ t.name = "India Men" /\ t.id = 1
  /\ \E t \in refs.teams : t.externalId = "team_ENG"
  /\ \E c \in refs.competitions : c.externalId = "default"
  /\ \E c \in refs.competitions : c.externalId = "ipl"

C22_HomeAndAwayDiffer ==
  \A m \in DOMAIN refs.matches : refs.matches[m].homeTeamId # refs.matches[m].awayTeamId

\* C29: the toss winner and the winner of a stored match are null or one of
\* the two teams of that match, whatever the snapshots' tossWinner and
\* winner fields hold.
C29_WinnersAreSidesOfTheMatch ==
  \A m \in DOMAIN refs.matches :
     LET row == refs.matches[m]
     IN /\ row.tossWinnerId \in {NoId, row.homeTeamId, row.awayTeamId}
        /\ row.winnerId \in {NoId, row.homeTeamId, row.awayTeamId}

\* C23: a user without an active Pro subscription never holds more than
\* three favourite teams, whatever the interleaving of addFavorite,
\* removeFavorite and subscription changes.
C23_FreeUserHoldsAtMostThree ==
  \A u \in FavUsers :
     ~isPro(subscriptions[u]) => favoritesCount(favorites, u) <= FREE_FAVORITES_LIMIT

\* C24: no EMAIL notification row exists for a user whose plan is Free,
\* whatever preferences the user has set.
C24_NoEmailRowOnFreePlan ==
  \A row \in BagToSet(notifications) :
     row.channel = "EMAIL" => subscriptions[row.userId].plan # "FREE"

\* C25: a get made before the TTL of the last set has run out returns the
\* value that was set, whether Redis answered at the set, at the get, at
\* both or at neither; and a get never returns an in-memory entry after
\* its expiry.
C25_GetReturnsWhatWasSet ==
  cache.got.ran =>
    /\ (cache.lastSet.value.type # Null
        /\ cache.now < cache.lastSet.at + cache.lastSet.ttlSeconds)
       => cache.got.value = cache.lastSet.value
    /\ (cache.got.from = "memory" /\ cache.got.value.type # Null)
       => ~(cache.got.expiry # 0 /\ cache.now > cache.got.expiry)

\* C26: over any sequence of polls of a match at most one MATCH_START is
\* emitted for it, also when a status the table does not know (stored as
\* SCHEDULED) comes between two live snapshots.
C26_MatchStartAtMostOnce ==
  \A m \in MatchIds : emitted[m]["MATCH_START"] <= 1

\* C27: a match stored SCHEDULED, then TOSS_DONE, gets a MATCH_START from
\* the poll that stores it as LIVE.
C27_MatchStartAfterToss ==
  [][ \A m \in DOMAIN matches :
        (matches[m].status = "TOSS_DONE" /\ matches'[m].status = "LIVE")
        => \E i \in DOMAIN lastPoll'.runs :
              /\ lastPoll'.runs[i].matchId = m
              /\ Len(EventsOfType(lastPoll'.runs[i], "MATCH_START")) = 1 ]_vars

\* C28: a match stored while live and then reported as ended by the
\* provider is still passed to processMatch by a poll cycle: it is among the
\* matches the live list or the upcoming list returns.  (A record that ended
\* stays ended, so a match in neither list is never processed again and its
\* stored status never becomes COMPLETED.)
C28_EndedMatchStillPolled ==
  \A m \in MatchIds :
     (m \in DOMAIN matches /\ matches[m].status = "LIVE" /\ feed[m].matchEnded)
     => \/ \E i \in DOMAIN getLiveMatches(feed) : getLiveMatches(feed)[i].id = m
        \/ \E i \in DOMAIN getUpcomingMatches(feed) : getUpcomingMatches(feed)[i].id = m

\* C30: under repeated drains every EMAIL row with sentAt null is eventually
\* among the rows a drain attempts, also with more than `take` rows pending
\* and rows that fail on every attempt
C30_PendingEmailEventuallyAttempted ==
  \A u \in Users :
     (CopiesIn(EmailRowOf(u), notifications) > 0)
     ~> (CopiesIn(EmailRowOf(u), delivery.selected) > 0)

====
